---- MODULE Spec2Model ----
(***************************************************************************)
(* The Python Analysis Service entry point (adms_analysis/main.py): the    *)
(* module-level bootstrap that builds the FastAPI application, registers   *)
(* the two middlewares and the routes, the optional uvicorn launcher, and  *)
(* the path one HTTP request takes through the middleware stack the        *)
(* bootstrap produced.                                                     *)
(*                                                                         *)
(* Strings the code takes apart (Host values, host patterns, paths) are    *)
(* sequences of tokens, so that split, startswith, endswith, rstrip and    *)
(* concatenation are computed and not assumed.                             *)
(***************************************************************************)
EXTENDS Integers, Sequences, FiniteSets, Bags, TLC

VARIABLES
    settings,          \* config.settings: HOST, PORT, DEBUG, ALLOWED_HOSTS, CORS_ORIGINS
    runMode,           \* the module's __name__: "__main__" or the imported module name
    pc,                \* position of the module-level code of main.py
    routes,            \* app.router.routes, in registration order
    user_middleware,   \* app.user_middleware, in list order
    middleware_stack,  \* app.middleware_stack: <<>> is None (not built yet)
    listener,          \* the uvicorn server started by the launcher, or NoListener
    inflight           \* bag of the requests being handled

vars == <<settings, runMode, pc, routes, user_middleware, middleware_stack,
          listener, inflight>>

\* ------------------------------------------------------------------ bounds

\* Requests handled at the same time in SpecConcurrent.
MaxInFlight == 2

\* ------------------------------------------------------------ token strings

NoHeader == "<absent>"
NoHandler == "<no handler>"

\* x in list
InList(x, list) == \E i \in 1..Len(list) : list[i] = x

\* s.split(sep)[0]
RECURSIVE SplitFirst(_, _)
SplitFirst(s, sep) ==
    IF s = <<>> \/ Head(s) = sep THEN <<>>
    ELSE <<Head(s)>> \o SplitFirst(Tail(s), sep)

\* s.startswith(t), for a one-token t
StartsWith(s, t) == Len(s) > 0 /\ s[1] = t

\* s.endswith(suf)
EndsWith(s, suf) ==
    /\ Len(suf) <= Len(s)
    /\ SubSeq(s, Len(s) - Len(suf) + 1, Len(s)) = suf

\* path.rstrip("/"): a path is its sequence of "/"-separated segments after
\* the leading "/", so a trailing "/" is a last segment that is empty.
RECURSIVE RStripSlash(_)
RStripSlash(p) ==
    IF p # <<>> /\ p[Len(p)] = "" THEN RStripSlash(SubSeq(p, 1, Len(p) - 1))
    ELSE p

\* path.endswith("/")
EndsWithSlash(p) == p = <<>> \/ p[Len(p)] = ""

\* ------------------------------------------------------------ configuration

ExampleCom == <<"example", ".", "com">>
WwwExampleCom == <<"www", ".">> \o ExampleCom
AnyHost == <<"*">>
WildExampleCom == <<"*", ".">> \o ExampleCom

\* Values of settings.ALLOWED_HOSTS (lists of host patterns).
AllowedHostsConfigs ==
    { <<AnyHost>>, <<ExampleCom>>, <<WildExampleCom>>, <<WwwExampleCom>>,
      <<WwwExampleCom, ExampleCom>> }

AppOrigin == "https://app.example.com"
EvilOrigin == "https://evil.example.net"

\* Values of settings.CORS_ORIGINS (lists of origins).
CorsOriginsConfigs == { <<>>, <<AppOrigin>>, <<"*">> }

\* Values of (settings.HOST, settings.PORT).
BindConfigs == { <<"0.0.0.0", 8001>>, <<"127.0.0.1", 9001>> }

Settings ==
    { [HOST |-> b[1], PORT |-> b[2], DEBUG |-> d, ALLOWED_HOSTS |-> ah,
       CORS_ORIGINS |-> co] :
        b \in BindConfigs, d \in BOOLEAN, ah \in AllowedHostsConfigs,
        co \in CorsOriginsConfigs }

\* ------------------------------------------------------------------ requests

Methods == {"GET", "POST", "OPTIONS"}

ApiPrefix(g) == <<"api", "v1", g>>
Groups == {"ocr", "nlp", "ai"}

Paths ==
    { <<>>, <<"health">>, <<"health", "">>, <<"docs">>, <<"redoc">>,
      <<"nope">>,
      ApiPrefix("ocr") \o <<"extract">>, ApiPrefix("nlp") \o <<"analyze">>,
      ApiPrefix("ai") \o <<"analyze">>, ApiPrefix("ocr") \o <<"analyze">> }

HostHeaders ==
    { ExampleCom \o <<":", "8001">>, <<"api", ".">> \o ExampleCom,
      <<"evil", ".", "net">> }

Origins == {AppOrigin, EvilOrigin}

\* A request: method, path, Host, Origin, Access-Control-Request-Method and
\* whether it carries a Cookie header.
Request(m, p, h, o, a, c) ==
    [method |-> m, path |-> p, host |-> h, origin |-> o, acrm |-> a,
     cookie |-> c]

\* The requests SpecConcurrent interleaves.
ConcurrentRequests ==
    { Request("GET", <<"health">>, ExampleCom \o <<":", "8001">>, NoHeader, NoHeader, FALSE),
      Request("GET", <<>>, <<"evil", ".", "net">>, NoHeader, NoHeader, FALSE),
      Request("OPTIONS", <<"health">>, <<"evil", ".", "net">>, AppOrigin, "POST", FALSE),
      Request("GET", <<"docs">>, <<"api", ".">> \o ExampleCom, EvilOrigin, NoHeader, TRUE),
      Request("POST", ApiPrefix("ocr") \o <<"extract">>, ExampleCom \o <<":", "8001">>, AppOrigin, NoHeader, FALSE),
      Request("GET", <<"nope">>, ExampleCom \o <<":", "8001">>, NoHeader, NoHeader, FALSE) }

IsPreflight(req) ==
    /\ req.origin # NoHeader
    /\ req.method = "OPTIONS"
    /\ req.acrm # NoHeader

\* The headers the code never reads on a request are left out of it: the
\* Access-Control-Request-Method header is read only on an OPTIONS request
\* that has an Origin, the Cookie header only on a non-preflight request
\* that has an Origin.
WellFormed(req) ==
    /\ req.acrm # NoHeader => (req.method = "OPTIONS" /\ req.origin # NoHeader)
    /\ req.cookie => (req.origin # NoHeader /\ ~IsPreflight(req))

Requests ==
    { req \in { Request(m, p, h, o, a, c) :
                  m \in Methods, p \in Paths, h \in HostHeaders,
                  o \in Origins \cup {NoHeader}, a \in {NoHeader, "POST", "TRACE"},
                  c \in BOOLEAN } : WellFormed(req) }

\* ----------------------------------------------------------- responses

PlainText(t) == [text |-> t]

\* The dict root() returns.
RootBody ==
    [service |-> "Advanced DMS - Python Analysis Service",
     version |-> "1.0.0",
     status |-> "running",
     supported_languages |-> <<"pt-PT", "en-US", "fr-FR">>,
     capabilities |-> <<"OCR", "NLP", "AI Analysis">>]

\* The dict health_check() returns.
HealthBody == [status |-> "healthy", service |-> "python-analysis"]

Response(st, b, who) ==
    [status |-> st, body |-> b, acao |-> NoHeader, by |-> who]

NoResponse == Response(0, PlainText(""), "")

\* ------------------------------------------------- TrustedHostMiddleware

\* The for loop of TrustedHostMiddleware.__call__ over allowed_hosts from
\* index i on: is_valid_host and found_www_redirect when it ends.
RECURSIVE ScanAllowedHosts(_, _, _, _)
ScanAllowedHosts(allowed_hosts, host, i, www) ==
    IF i > Len(allowed_hosts) THEN [is_valid_host |-> FALSE, found_www_redirect |-> www]
    ELSE LET pattern == allowed_hosts[i] IN
         IF \/ host = pattern
            \/ (StartsWith(pattern, "*") /\ EndsWith(host, Tail(pattern)))
         THEN [is_valid_host |-> TRUE, found_www_redirect |-> www]
         ELSE ScanAllowedHosts(allowed_hosts, host, i + 1,
                               www \/ (<<"www", ".">> \o host = pattern))

\* TrustedHostVerdict with the www. redirect case let through.
TrustedHostVerdictWwwPass(allowed_hosts, hostHeader) ==
    LET host == SplitFirst(hostHeader, ":")
        scan == ScanAllowedHosts(allowed_hosts, host, 1, FALSE)
    IN  IF InList(AnyHost, allowed_hosts) \/ scan.is_valid_host
           \/ scan.found_www_redirect
        THEN "pass"
        ELSE "reject"

\* What the trusted-host filter does with a Host header value:
\* "pass", "redirect" (to the www. host) or "reject".
TrustedHostVerdict(allowed_hosts, hostHeader) ==
    LET allow_any == InList(AnyHost, allowed_hosts)
        host == SplitFirst(hostHeader, ":")
        scan == ScanAllowedHosts(allowed_hosts, host, 1, FALSE)
    IN  IF allow_any \/ scan.is_valid_host THEN "pass"
        ELSE IF scan.found_www_redirect THEN "redirect"
        ELSE "reject"

TrustedHostResponse(verdict) ==
    IF verdict = "redirect"
    THEN Response(307, PlainText(""), "TrustedHostMiddleware")
    ELSE Response(400, PlainText("Invalid host header"), "TrustedHostMiddleware")

\* ---------------------------------------------------------- CORSMiddleware

ALL_METHODS == {"DELETE", "GET", "HEAD", "OPTIONS", "PATCH", "POST", "PUT"}

\* CORSMiddleware.is_allowed_origin (no allow_origin_regex is configured)
IsAllowedOrigin(opts, origin) ==
    InList("*", opts.allow_origins) \/ InList(origin, opts.allow_origins)

\* CORSMiddleware.preflight_response
PreflightResponse(opts, req) ==
    LET allow_all_origins == InList("*", opts.allow_origins)
        explicit == ~allow_all_origins \/ opts.allow_credentials
        allowed == IsAllowedOrigin(opts, req.origin)
        allow_methods == IF InList("*", opts.allow_methods) THEN ALL_METHODS
                         ELSE {opts.allow_methods[i] : i \in 1..Len(opts.allow_methods)}
        failed == ~allowed \/ req.acrm \notin allow_methods
        acao == IF allowed /\ explicit THEN req.origin
                ELSE IF ~explicit THEN "*"
                ELSE NoHeader
    IN  IF failed
        THEN [Response(400, PlainText("Disallowed CORS"), "CORSMiddleware")
                EXCEPT !.acao = acao]
        ELSE [Response(200, PlainText("OK"), "CORSMiddleware")
                EXCEPT !.acao = acao]

\* SimpleHeaders reflecting the request's Origin whatever it is.
SimpleHeadersMirror(opts, req, resp) == [resp EXCEPT !.acao = req.origin]

\* CORSMiddleware.send: the headers added to the response an inner layer
\* produced for a non-preflight request that has an Origin.
SimpleHeaders(opts, req, resp) ==
    LET allow_all_origins == InList("*", opts.allow_origins)
        simple == IF allow_all_origins THEN "*" ELSE resp.acao
    IN  [resp EXCEPT !.acao =
            IF allow_all_origins /\ req.cookie THEN req.origin
            ELSE IF ~allow_all_origins /\ IsAllowedOrigin(opts, req.origin)
                 THEN req.origin
            ELSE simple]

\* ------------------------------------------------------------- route table

Route(path, methods, endpoint) ==
    [path |-> path, methods |-> methods, endpoint |-> endpoint]

\* FastAPI.__init__ -> setup(): the routes the constructor registers for
\* openapi_url (left at its default), docs_url and redoc_url.
NoUrl == <<"<None>">>

SetupRoutes(docs_url, redoc_url) ==
    <<Route(<<"openapi.json">>, {"GET", "HEAD"}, "openapi")>>
    \o (IF docs_url # NoUrl
        THEN <<Route(docs_url, {"GET", "HEAD"}, "swagger_ui_html"),
               Route(docs_url \o <<"oauth2-redirect">>, {"GET", "HEAD"},
                     "swagger_ui_redirect")>>
        ELSE <<>>)
    \o (IF redoc_url # NoUrl
        THEN <<Route(redoc_url, {"GET", "HEAD"}, "redoc_html")>>
        ELSE <<>>)

\* The routes each route group declares (routers/ocr.py, nlp.py, ai.py),
\* relative to the prefix it is mounted at.
RouterRoutes(g) ==
    IF g = "ocr" THEN <<Route(<<"extract">>, {"POST"}, "ocr.extract")>>
    ELSE IF g = "nlp" THEN <<Route(<<"analyze">>, {"POST"}, "nlp.analyze")>>
    ELSE <<Route(<<"analyze">>, {"POST"}, "ai.analyze"),
           Route(<<"extract">>, {"POST"}, "ai.extract")>>

\* The route group an endpoint belongs to ("app" for the application's own).
GroupOf(endpoint) ==
    IF endpoint \in {"ocr.extract"} THEN "ocr"
    ELSE IF endpoint \in {"nlp.analyze"} THEN "nlp"
    ELSE IF endpoint \in {"ai.analyze", "ai.extract"} THEN "ai"
    ELSE "app"

\* IncludeRouter mounting every group at the OCR prefix.
IncludeRouterSamePrefix(table, g, prefix) ==
    table \o [i \in 1..Len(RouterRoutes(g)) |->
                [RouterRoutes(g)[i] EXCEPT !.path = ApiPrefix("ocr") \o @]]

\* app.include_router(router, prefix=...): every route of the group is added
\* to the application's route table under prefix + route.path.
IncludeRouter(table, g, prefix) ==
    table \o [i \in 1..Len(RouterRoutes(g)) |->
                [RouterRoutes(g)[i] EXCEPT !.path = prefix \o @]]

\* Route.matches
Matches(route, method, path) ==
    IF route.path = path
    THEN IF method \notin route.methods THEN "PARTIAL" ELSE "FULL"
    ELSE "NONE"

FirstIndex(table, method, path, kinds) ==
    LET hits == {i \in 1..Len(table) : Matches(table[i], method, path) \in kinds}
    IN  IF hits = {} THEN 0 ELSE CHOOSE i \in hits : \A j \in hits : i <= j

\* Router.app: the first full match is handled, else the first partial match
\* (405), else a redirect when the path with its trailing slash toggled
\* matches a route (redirect_slashes, on by default), else not found.
Dispatch(table, method, path) ==
    LET full == FirstIndex(table, method, path, {"FULL"})
        partial == FirstIndex(table, method, path, {"PARTIAL"})
        toggled == IF EndsWithSlash(path) THEN RStripSlash(path)
                   ELSE path \o <<"">>
    IN  IF full # 0 THEN [kind |-> "handle", endpoint |-> table[full].endpoint]
        ELSE IF partial # 0
             THEN [kind |-> "method_not_allowed", endpoint |-> NoHandler]
        ELSE IF path # <<>>
                /\ FirstIndex(table, method, toggled, {"FULL", "PARTIAL"}) # 0
             THEN [kind |-> "redirect", endpoint |-> NoHandler]
        ELSE [kind |-> "not_found", endpoint |-> NoHandler]

\* ------------------------------------------------------------------ handlers

\* root with one supported language missing.
rootTwoLanguages ==
    Response(200, [RootBody EXCEPT !.supported_languages = <<"pt-PT", "en-US">>],
             "root")

\* async def root()
root == Response(200, RootBody, "root")

\* health_check reporting another status word.
health_checkOk ==
    Response(200, [status |-> "ok", service |-> "python-analysis"], "health_check")

\* async def health_check()
health_check == Response(200, HealthBody, "health_check")

\* What calling an endpoint returns.
EndpointResponse(endpoint) ==
    IF endpoint = "root" THEN root
    ELSE IF endpoint = "health_check" THEN health_check
    ELSE Response(200, [page |-> endpoint], endpoint)

RouterResponse(d) ==
    IF d.kind = "handle" THEN EndpointResponse(d.endpoint)
    ELSE IF d.kind = "method_not_allowed"
         THEN Response(405, [detail |-> "Method Not Allowed"], "Router")
    ELSE IF d.kind = "redirect" THEN Response(307, PlainText(""), "Router")
    ELSE Response(404, [detail |-> "Not Found"], "Router")

\* ----------------------------------------------------------------- state

NoListener == [running |-> FALSE]

Middleware(cls, options) == [cls |-> cls, options |-> options]

\* Starlette.add_middleware: self.user_middleware.insert(0, Middleware(...))
AddMiddleware(list, m) == <<m>> \o list

\* Starlette.build_middleware_stack: the first entry of user_middleware is
\* the outermost layer and the router the innermost. (ServerErrorMiddleware
\* and ExceptionMiddleware, which wrap them, pass every request on and turn
\* the router's HTTPException into the 404/405 response.)
BuildMiddlewareStack(list) ==
    list \o <<Middleware("Router", [name |-> "app.router"])>>

Init ==
    /\ settings \in Settings
    /\ runMode \in {"__main__", "adms_analysis.main"}
    /\ pc = "create_app"
    /\ routes = <<>>
    /\ user_middleware = <<>>
    /\ middleware_stack = <<>>
    /\ listener = NoListener
    /\ inflight = EmptyBag

\* -------------------------------------------------- module-level bootstrap

\* CreateApp exposing the documentation whatever DEBUG is.
CreateAppAlwaysDocs ==
    /\ pc = "create_app"
    /\ routes' = SetupRoutes(<<"docs">>, <<"redoc">>)
    /\ pc' = "add_trusted_host"
    /\ UNCHANGED <<settings, runMode, user_middleware, middleware_stack,
                   listener, inflight>>

\* app = FastAPI(..., docs_url=..., redoc_url=...)
CreateApp ==
    /\ pc = "create_app"
    /\ routes' = SetupRoutes(IF settings.DEBUG THEN <<"docs">> ELSE NoUrl,
                             IF settings.DEBUG THEN <<"redoc">> ELSE NoUrl)
    /\ pc' = "add_trusted_host"
    /\ UNCHANGED <<settings, runMode, user_middleware, middleware_stack,
                   listener, inflight>>

\* app.add_middleware(TrustedHostMiddleware, allowed_hosts=...)
AddTrustedHost ==
    /\ pc = "add_trusted_host"
    /\ middleware_stack = <<>>
    /\ user_middleware' =
         AddMiddleware(user_middleware,
                       Middleware("TrustedHostMiddleware",
                                  [allowed_hosts |-> settings.ALLOWED_HOSTS]))
    /\ pc' = "add_cors"
    /\ UNCHANGED <<settings, runMode, routes, middleware_stack, listener,
                   inflight>>

\* app.add_middleware(CORSMiddleware, allow_origins=..., ...)
AddCORS ==
    /\ pc = "add_cors"
    /\ middleware_stack = <<>>
    /\ user_middleware' =
         AddMiddleware(user_middleware,
                       Middleware("CORSMiddleware",
                                  [allow_origins |-> settings.CORS_ORIGINS,
                                   allow_credentials |-> TRUE,
                                   allow_methods |-> <<"*">>,
                                   allow_headers |-> <<"*">>]))
    /\ pc' = "include_ocr"
    /\ UNCHANGED <<settings, runMode, routes, middleware_stack, listener,
                   inflight>>

\* app.include_router(ocr.router, prefix="/api/v1/ocr", tags=["OCR"])
IncludeOcr ==
    /\ pc = "include_ocr"
    /\ routes' = IncludeRouter(routes, "ocr", ApiPrefix("ocr"))
    /\ pc' = "include_nlp"
    /\ UNCHANGED <<settings, runMode, user_middleware, middleware_stack,
                   listener, inflight>>

\* app.include_router(nlp.router, prefix="/api/v1/nlp", tags=["NLP"])
IncludeNlp ==
    /\ pc = "include_nlp"
    /\ routes' = IncludeRouter(routes, "nlp", ApiPrefix("nlp"))
    /\ pc' = "include_ai"
    /\ UNCHANGED <<settings, runMode, user_middleware, middleware_stack,
                   listener, inflight>>

\* app.include_router(ai.router, prefix="/api/v1/ai", tags=["AI"])
IncludeAi ==
    /\ pc = "include_ai"
    /\ routes' = IncludeRouter(routes, "ai", ApiPrefix("ai"))
    /\ pc' = "get_root"
    /\ UNCHANGED <<settings, runMode, user_middleware, middleware_stack,
                   listener, inflight>>

\* @app.get("/")
RegisterRoot ==
    /\ pc = "get_root"
    /\ routes' = Append(routes, Route(<<>>, {"GET"}, "root"))
    /\ pc' = "get_health"
    /\ UNCHANGED <<settings, runMode, user_middleware, middleware_stack,
                   listener, inflight>>

\* @app.get("/health")
RegisterHealth ==
    /\ pc = "get_health"
    /\ routes' = Append(routes, Route(<<"health">>, {"GET"}, "health_check"))
    /\ pc' = "main_guard"
    /\ UNCHANGED <<settings, runMode, user_middleware, middleware_stack,
                   listener, inflight>>

\* UvicornRun with auto-reload left on.
UvicornRunReload(cfg) ==
    [running |-> TRUE, app |-> "main:app", host |-> cfg.HOST,
     port |-> cfg.PORT, reload |-> TRUE,
     log_level |-> IF cfg.DEBUG THEN "info" ELSE "warning"]

\* The arguments of uvicorn.run(...)
UvicornRun(cfg) ==
    [running |-> TRUE, app |-> "main:app", host |-> cfg.HOST,
     port |-> cfg.PORT, reload |-> cfg.DEBUG,
     log_level |-> IF cfg.DEBUG THEN "info" ELSE "warning"]

\* if __name__ == "__main__": uvicorn.run(...)
Launch ==
    /\ pc = "main_guard"
    /\ runMode = "__main__"
    /\ listener' = UvicornRun(settings)
    /\ pc' = "serving"
    /\ UNCHANGED <<settings, runMode, routes, user_middleware,
                   middleware_stack, inflight>>

\* The module was imported (by the package or by an ASGI server): the guard
\* is false and the module body ends; the importer serves the application.
Imported ==
    /\ pc = "main_guard"
    /\ runMode # "__main__"
    /\ pc' = "serving"
    /\ UNCHANGED <<settings, runMode, routes, user_middleware,
                   middleware_stack, listener, inflight>>

\* ---------------------------------------------------------------- requests

InFlight == BagToSet(inflight)

Replace(old, new) == (inflight (-) SetToBag({old})) (+) SetToBag({new})

\* The layer of the middleware stack a request is at.
LayerOf(r) == middleware_stack[r.layer]

\* A response on its way out passes the send wrappers the layers it went
\* through installed, innermost first.
RECURSIVE Deliver(_, _, _)
Deliver(wrappers, req, resp) ==
    IF wrappers = <<>> THEN resp
    ELSE Deliver(Tail(wrappers), req, SimpleHeaders(Head(wrappers), req, resp))

\* Receive building the stack by moving the entries out of user_middleware.
ReceiveConsuming(req, limit) ==
    /\ pc = "serving"
    /\ BagCardinality(inflight) < limit
    /\ middleware_stack' = IF middleware_stack = <<>>
                           THEN BuildMiddlewareStack(user_middleware)
                           ELSE middleware_stack
    /\ user_middleware' = <<>>
    /\ inflight' = inflight (+) SetToBag({
            [req |-> req, layer |-> 1, visited |-> <<>>, wrappers |-> <<>>,
             handler |-> NoHandler, response |-> NoResponse]})
    /\ UNCHANGED <<settings, runMode, pc, routes, listener>>

\* Starlette.__call__: the stack is built when the first request arrives,
\* and the request enters it at the outermost layer.
Receive(req, limit) ==
    /\ pc = "serving"
    /\ BagCardinality(inflight) < limit
    /\ middleware_stack' = IF middleware_stack = <<>>
                           THEN BuildMiddlewareStack(user_middleware)
                           ELSE middleware_stack
    /\ inflight' = inflight (+) SetToBag({
            [req |-> req, layer |-> 1, visited |-> <<>>, wrappers |-> <<>>,
             handler |-> NoHandler, response |-> NoResponse]})
    /\ UNCHANGED <<settings, runMode, pc, routes, user_middleware, listener>>

\* TrustedHostMiddleware.__call__
TrustedHostCall(r) ==
    LET verdict == TrustedHostVerdict(LayerOf(r).options.allowed_hosts, r.req.host)
        seen == [r EXCEPT !.visited = Append(@, "TrustedHostMiddleware")]
    IN  /\ r.response = NoResponse
        /\ LayerOf(r).cls = "TrustedHostMiddleware"
        /\ inflight' = Replace(r,
             IF verdict = "pass"
             THEN [seen EXCEPT !.layer = @ + 1]
             ELSE [seen EXCEPT !.response =
                      Deliver(r.wrappers, r.req, TrustedHostResponse(verdict))])
        /\ UNCHANGED <<settings, runMode, pc, routes, user_middleware,
                       middleware_stack, listener>>

\* CORSMiddleware.__call__
CORSCall(r) ==
    LET opts == LayerOf(r).options
        seen == [r EXCEPT !.visited = Append(@, "CORSMiddleware")]
    IN  /\ r.response = NoResponse
        /\ LayerOf(r).cls = "CORSMiddleware"
        /\ inflight' = Replace(r,
             IF r.req.origin = NoHeader
             THEN [seen EXCEPT !.layer = @ + 1]
             ELSE IF r.req.method = "OPTIONS" /\ r.req.acrm # NoHeader
             THEN [seen EXCEPT !.response =
                      Deliver(r.wrappers, r.req, PreflightResponse(opts, r.req))]
             ELSE [seen EXCEPT !.layer = @ + 1,
                               !.wrappers = <<opts>> \o @])
        /\ UNCHANGED <<settings, runMode, pc, routes, user_middleware,
                       middleware_stack, listener>>

\* Router.app and the endpoint it calls
RouterCall(r) ==
    LET d == Dispatch(routes, r.req.method, r.req.path)
        seen == [r EXCEPT !.visited = Append(@, "Router")]
    IN  /\ r.response = NoResponse
        /\ LayerOf(r).cls = "Router"
        /\ inflight' = Replace(r,
             [seen EXCEPT !.handler = d.endpoint,
                          !.response = Deliver(r.wrappers, r.req, RouterResponse(d))])
        /\ UNCHANGED <<settings, runMode, pc, routes, user_middleware,
                       middleware_stack, listener>>

\* The response has been sent and the request is over.
Complete(r) ==
    /\ r.response # NoResponse
    /\ inflight' = inflight (-) SetToBag({r})
    /\ UNCHANGED <<settings, runMode, pc, routes, user_middleware,
                   middleware_stack, listener>>

\* The module body of main.py, statement by statement.
Bootstrap ==
    \/ CreateApp
    \/ AddTrustedHost
    \/ AddCORS
    \/ IncludeOcr
    \/ IncludeNlp
    \/ IncludeAi
    \/ RegisterRoot
    \/ RegisterHealth
    \/ Launch
    \/ Imported

\* One step of a request in the middleware stack.
Handle ==
    \/ \E r \in InFlight : TrustedHostCall(r)
    \/ \E r \in InFlight : CORSCall(r)
    \/ \E r \in InFlight : RouterCall(r)
    \/ \E r \in InFlight : Complete(r)

\* Every request of Requests, one request at a time.
Next ==
    \/ Bootstrap
    \/ (inflight = EmptyBag /\ \E req \in Requests : Receive(req, 1))
    \/ Handle

Spec == Init /\ [][Next]_vars

\* The requests of ConcurrentRequests, up to MaxInFlight of them at a time,
\* their steps interleaved in every order.
NextConcurrent ==
    \/ Bootstrap
    \/ \E req \in ConcurrentRequests : Receive(req, MaxInFlight)
    \/ Handle

SpecConcurrent == Init /\ [][NextConcurrent]_vars

\* ------------------------------------------------------------ vocabulary

\* The requests that have been answered.
Answered == {r \in InFlight : r.response # NoResponse}

\* The Host header value h, port left out, matches an entry of the list:
\* the entry is "*", or is the host name, or is "*.domain" and the host
\* name ends with ".domain".
HostMatches(h, allowed) ==
    LET name == SplitFirst(h, ":") IN
    \E i \in 1..Len(allowed) :
        \/ allowed[i] = <<"*">>
        \/ allowed[i] = name
        \/ /\ Len(allowed[i]) >= 2
           /\ allowed[i][1] = "*"
           /\ allowed[i][2] = "."
           /\ Len(name) >= Len(allowed[i]) - 1
           /\ \A k \in 2..Len(allowed[i]) :
                 name[Len(name) - Len(allowed[i]) + k] = allowed[i][k]

TrustedHost(r) == HostMatches(r.req.host, settings.ALLOWED_HOSTS)

\* The path lies under the prefix /api/v1/g.
Under(path, g) ==
    /\ Len(path) >= 3
    /\ path[1] = "api" /\ path[2] = "v1" /\ path[3] = g

\* Some route of the table has this path.
Registered(path) == \E i \in 1..Len(routes) : routes[i].path = path

IsGet(r, path) == r.req.method = "GET" /\ r.req.path = path

\* ------------------------------------------------------------------- claims

\* C1: a request whose Host header matches no entry of ALLOWED_HOSTS never
\* has a route handler invoked for it, whatever its method and path.
C1_NoHandlerForUntrustedHost ==
    \A r \in InFlight : ~TrustedHost(r) => r.handler = NoHandler

\* C1 witness: GET /health with an untrusted Host has been answered.
C1_Witness ==
    \E r \in Answered : ~TrustedHost(r) /\ IsGet(r, <<"health">>)

\* C2 as claimed: every answered request whose Host header matches no entry
\* of ALLOWED_HOSTS, a preflight included, was answered by the trusted-host
\* filter with its rejection, never by the CORS filter or with a success.
C2_UntrustedHostRejectedByTrustedHost ==
    \A r \in Answered :
        ~TrustedHost(r) =>
            /\ r.response.by = "TrustedHostMiddleware"
            /\ r.response.status \in {400, 307}

\* C3 as claimed: /docs and /redoc are in the route table exactly when DEBUG
\* is true, and every GET of them is answered 200 when DEBUG is true and 404
\* when it is false.
C3_DocsIffDebugEveryRequest ==
    pc # "create_app" =>
        /\ Registered(<<"docs">>) <=> settings.DEBUG
        /\ Registered(<<"redoc">>) <=> settings.DEBUG
        /\ \A r \in Answered :
              (IsGet(r, <<"docs">>) \/ IsGet(r, <<"redoc">>)) =>
                  r.response.status = IF settings.DEBUG THEN 200 ELSE 404

\* C3 amended: /docs and /redoc are in the route table exactly when DEBUG is
\* true, and every GET of them whose Host header matches ALLOWED_HOSTS is
\* answered 200 when DEBUG is true and 404 when it is false.
C3_DocsIffDebug ==
    pc # "create_app" =>
        /\ Registered(<<"docs">>) <=> settings.DEBUG
        /\ Registered(<<"redoc">>) <=> settings.DEBUG
        /\ \A r \in Answered :
              (TrustedHost(r) /\ (IsGet(r, <<"docs">>) \/ IsGet(r, <<"redoc">>))) =>
                  r.response.status = IF settings.DEBUG THEN 200 ELSE 404

\* C3 witness: with DEBUG false, GET /docs with a trusted Host got 404.
C3_Witness ==
    \E r \in Answered :
        /\ ~settings.DEBUG /\ TrustedHost(r) /\ IsGet(r, <<"docs">>)
        /\ r.response.status = 404

\* The response carries an Access-Control-Allow-Origin header that names
\* the request's origin or is "*".
Permissive(r) == r.response.acao \in {r.req.origin, "*"}

\* C4 as claimed: for every CORS_ORIGINS, a request whose Origin is not a
\* member of CORS_ORIGINS gets no permissive Access-Control-Allow-Origin.
C4_NoPermissiveHeadersEveryConfig ==
    \A r \in Answered :
        (r.req.origin # NoHeader /\ ~InList(r.req.origin, settings.CORS_ORIGINS))
            => ~Permissive(r)

\* C4 amended: when CORS_ORIGINS does not hold the wildcard "*", a request
\* whose Origin is not a member of CORS_ORIGINS gets no permissive
\* Access-Control-Allow-Origin, simple or preflight.
C4_NoPermissiveHeaders ==
    \A r \in Answered :
        (/\ r.req.origin # NoHeader
         /\ ~InList(r.req.origin, settings.CORS_ORIGINS)
         /\ ~InList("*", settings.CORS_ORIGINS))
            => ~Permissive(r)

\* C4 witness: a preflight from an origin outside a non-empty CORS_ORIGINS
\* without wildcard has been answered.
C4_Witness ==
    \E r \in Answered :
        /\ settings.CORS_ORIGINS = <<AppOrigin>>
        /\ r.req.origin = EvilOrigin
        /\ IsPreflight(r.req)

\* A request under a prefix is handled by no handler outside that group.
Exclusive(r) ==
    \A g \in Groups :
        Under(r.req.path, g) => (r.handler = NoHandler \/ GroupOf(r.handler) = g)

\* C5 as claimed: with a trusted Host, a request under /api/v1/ocr, nlp or
\* ai is handled by its own group only, and route dispatch answers a path
\* no route has with not-found.
C5_PrefixRoutingNotFound ==
    \A r \in InFlight :
        TrustedHost(r) =>
            /\ Exclusive(r)
            /\ (InList("Router", r.visited) /\ ~Registered(r.req.path))
                   => r.response.status = 404

\* C5 amended: with a trusted Host, a request under /api/v1/ocr, nlp or ai
\* is handled by its own group only, and route dispatch answers a path no
\* route has with not-found, or with a redirect when the path with its
\* trailing slash added or removed is the path of a route.
C5_PrefixRouting ==
    \A r \in InFlight :
        TrustedHost(r) =>
            /\ Exclusive(r)
            /\ (InList("Router", r.visited) /\ ~Registered(r.req.path))
                   => IF \/ Registered(r.req.path \o <<"">>)
                         \/ /\ r.req.path # <<>>
                            /\ r.req.path[Len(r.req.path)] = ""
                            /\ Registered(RStripSlash(r.req.path))
                      THEN r.response.status = 307
                      ELSE r.response.status = 404

\* C5 witness: a request under /api/v1/ocr for a path only the other groups
\* declare went through route dispatch.
C5_Witness ==
    \E r \in Answered :
        /\ TrustedHost(r)
        /\ r.req.method = "POST"
        /\ r.req.path = <<"api", "v1", "ocr", "analyze">>
        /\ InList("Router", r.visited)

\* C6 as claimed: for every configuration, every GET /health is answered
\* 200 with the body {"status":"healthy","service":"python-analysis"}.
C6_HealthAlwaysSucceeds ==
    \A r \in Answered :
        IsGet(r, <<"health">>) =>
            /\ r.response.status = 200
            /\ r.response.body = [status |-> "healthy", service |-> "python-analysis"]

\* C6 amended: every GET /health whose Host header matches ALLOWED_HOSTS is
\* answered 200 with the body {"status":"healthy","service":"python-analysis"}.
C6_HealthSucceeds ==
    \A r \in Answered :
        (TrustedHost(r) /\ IsGet(r, <<"health">>)) =>
            /\ r.response.status = 200
            /\ r.response.body = [status |-> "healthy", service |-> "python-analysis"]

\* C6 witness: a GET /health with a trusted Host and an Origin was answered.
C6_Witness ==
    \E r \in Answered :
        TrustedHost(r) /\ IsGet(r, <<"health">>) /\ r.req.origin = EvilOrigin

\* The body GET / is specified to return.
ServiceDescriptor ==
    [service |-> "Advanced DMS - Python Analysis Service",
     version |-> "1.0.0",
     status |-> "running",
     supported_languages |-> <<"pt-PT", "en-US", "fr-FR">>,
     capabilities |-> <<"OCR", "NLP", "AI Analysis">>]

\* C7 as claimed: every GET / is answered 200 with the five-field service
\* descriptor, whatever the request, the configuration and the history.
C7_RootAlwaysDescriptor ==
    \A r \in Answered :
        IsGet(r, <<>>) =>
            r.response.status = 200 /\ r.response.body = ServiceDescriptor

\* C7 amended: every GET / whose Host header matches ALLOWED_HOSTS is
\* answered 200 with the five-field service descriptor, whatever the rest of
\* the request, the configuration and the history.
C7_RootDescriptor ==
    \A r \in Answered :
        (TrustedHost(r) /\ IsGet(r, <<>>)) =>
            r.response.status = 200 /\ r.response.body = ServiceDescriptor

\* C7 witness: a GET / with a trusted Host, an Origin and a cookie was
\* answered.
C7_Witness ==
    \E r \in Answered :
        TrustedHost(r) /\ IsGet(r, <<>>) /\ r.req.origin # NoHeader /\ r.req.cookie

\* C8: the listener is started only when the module runs as __main__, and
\* then on HOST:PORT, with reload equal to DEBUG and log level "info" under
\* DEBUG and "warning" otherwise; an imported module starts none.
C8_Launcher ==
    /\ listener.running =>
          /\ runMode = "__main__"
          /\ listener.host = settings.HOST
          /\ listener.port = settings.PORT
          /\ listener.reload = settings.DEBUG
          /\ settings.DEBUG => listener.log_level = "info"
          /\ ~settings.DEBUG => listener.log_level = "warning"
    /\ (pc = "serving" /\ runMode = "__main__") => listener.running

\* C8 witness: the launcher ran with DEBUG false.
C8_Witness ==
    listener.running /\ ~settings.DEBUG /\ settings.PORT = 9001

\* C9: once the bootstrap is over, no step of any request changes the
\* configuration, the registered middleware list or the route table.
C9_Frame ==
    [][pc = "serving" => UNCHANGED <<settings, user_middleware, routes>>]_vars

\* C9 witness: two requests are in flight at different layers of the stack,
\* one of them answered by a filter.
C9_Witness ==
    \E r1, r2 \in InFlight :
        /\ r1.response # NoResponse
        /\ r1.handler = NoHandler
        /\ r2.response = NoResponse
        /\ r2.layer > 1

\* C10 as claimed: the CORS filter examines a request only after the
\* trusted-host filter has examined it.
C10_TrustedHostBeforeCors ==
    \A r \in InFlight :
        \A i \in 1..Len(r.visited) :
            r.visited[i] = "CORSMiddleware" =>
                \E j \in 1..(i - 1) : r.visited[j] = "TrustedHostMiddleware"

====
